---- MODULE Spec2Model ----
(***************************************************************************)
(* Model of AssignmentScraper (example_scraper.py): the demo run of main() *)
(* loads the template assignments and export_all_formats() reshapes them   *)
(* into the Google Sheets, Notion and Todo documents.                      *)
(*                                                                         *)
(* Time is counted in hours since 2026-11-04T00:00:00 UTC.                 *)
(***************************************************************************)
EXTENDS Integers, Sequences, FiniteSets, TLC

(***************************************************************************)
(* Bounds of the model.                                                    *)
(***************************************************************************)
MaxAssignments == 2
MaxTicks == 1

(***************************************************************************)
(* Python values: None, str and int, as records of one shape.              *)
(***************************************************************************)
None == [t |-> "none", s |-> "", n |-> 0]
Str(x) == [t |-> "str", s |-> x, n |-> 0]
Num(k) == [t |-> "int", s |-> "", n |-> k]
\* the value _calculate_days_until_due would leave to its caller were an
\* exception to escape it
Raised == [t |-> "exc", s |-> "", n |-> 0]

\* dict.get(key, default): an assignment is a function on the keys it has
Get(a, k, d) == IF k \in DOMAIN a THEN a[k] ELSE d

\* str() of a value, as an f-string placeholder formats it
Format(v) ==
  IF v.t = "none" THEN "None"
  ELSE IF v.t = "int" THEN ToString(v.n)
  ELSE v.s

\* Python truthiness of a value ("if not due_date_str")
Truthy(v) ==
  \/ v.t = "str" /\ v.s # ""
  \/ v.t = "int" /\ v.n # 0

(***************************************************************************)
(* Dates.  The strings of the model and what datetime.fromisoformat makes  *)
(* of them: wall is the wall-clock hour in the string's own zone, aware    *)
(* says whether it carries an offset, off is that offset in hours.         *)
(***************************************************************************)
HoursPerDay == 24
UrgentDays == 3

DueZ == "2026-11-04T06:00:00Z"
DueOffset == "2026-11-08T08:00:00+02:00"
DueNaive == "2026-11-07T19:00:00"
NotADate == "not-a-date"

\* str.replace('Z', '+00:00') on the strings of the model
ReplaceZ(s) ==
  IF s = DueZ THEN "2026-11-04T06:00:00+00:00"
  ELSE s

IsoTable ==
  ("2026-11-04T06:00:00+00:00" :> [wall |-> 6, aware |-> TRUE, off |-> 0])
  @@ (DueOffset :> [wall |-> 104, aware |-> TRUE, off |-> 2])
  @@ (DueNaive :> [wall |-> 91, aware |-> FALSE, off |-> 0])

\* datetime.fromisoformat raises ValueError on anything else
IsIsoFormat(s) == s \in DOMAIN IsoTable
FromIsoFormat(s) == IsoTable[s]

\* datetime.now(tzinfo): the wall clock of that zone, or of the local zone
\* for a naive date, when the UTC clock reads t
NowIn(d, t, local) == IF d.aware THEN t + d.off ELSE t + local

\* timedelta.days of a difference of h hours: timedelta normalises to
\* days + a non-negative remainder
TimedeltaDays_Truncate(h) == IF h >= 0 THEN h \div HoursPerDay ELSE -((-h) \div HoursPerDay)
TimedeltaDays(h) == h \div HoursPerDay

\* the try block of _calculate_days_until_due: the value returned, or Raised
\* for the exception thrown (AttributeError for a non-string, ValueError for
\* a string that is no ISO date)
TryDays(v, t, local) ==
  IF v.t # "str" THEN Raised
  ELSE IF ~IsIsoFormat(ReplaceZ(v.s)) THEN Raised
  ELSE LET due_date == FromIsoFormat(ReplaceZ(v.s))
           nowv == NowIn(due_date, t, local)
       IN Num(TimedeltaDays(due_date.wall - nowv))

CalculateDaysUntilDue_NoExcept(v, t, local) ==
  IF ~Truthy(v) THEN None ELSE TryDays(v, t, local)
CalculateDaysUntilDue(v, t, local) ==
  IF ~Truthy(v) THEN None
  ELSE LET r == TryDays(v, t, local)
       IN IF r = Raised THEN None ELSE r

(***************************************************************************)
(* The three mappings of one assignment.                                   *)
(***************************************************************************)
Columns ==
  << "assignment_id", "class_code", "class_name", "title", "type", "status",
     "assigned_date", "due_date", "days_until_due", "priority",
     "points_possible", "estimated_hours", "url" >>

\* the row literal of transform_to_sheets_format; days is the value
\* _calculate_days_until_due returned for the assignment's due date
SheetsRow_NoDays(a, days) ==
  << Get(a, "assignment_id", Str("")), Get(a, "class_code", Str("")),
     Get(a, "class_name", Str("")), Get(a, "title", Str("")),
     Get(a, "type", Str("")), Get(a, "status", Str("")),
     Get(a, "assigned_date", Str("")), Get(a, "due_date", Str("")),
     Get(a, "priority", Str("")), Get(a, "points_possible", Str("")),
     Get(a, "estimated_hours", Str("")), Get(a, "url", Str("")) >>
SheetsRow(a, days) ==
  << Get(a, "assignment_id", Str("")), Get(a, "class_code", Str("")),
     Get(a, "class_name", Str("")), Get(a, "title", Str("")),
     Get(a, "type", Str("")), Get(a, "status", Str("")),
     Get(a, "assigned_date", Str("")), Get(a, "due_date", Str("")),
     days,
     Get(a, "priority", Str("")), Get(a, "points_possible", Str("")),
     Get(a, "estimated_hours", Str("")), Get(a, "url", Str("")) >>

PropertyNames ==
  { "Assignment ID", "Title", "Class", "Type", "Status", "Priority",
    "Assigned Date", "Due Date", "Points", "Estimated Hours", "URL", "Tags" }

\* the page literal of transform_to_notion_format ("Tags" is always [])
NotionPage_IdFromTitle(a) ==
  [ page_id |-> "page_" \o Format(Get(a, "title", None)),
    properties |->
      [ p \in PropertyNames |->
          CASE p = "Assignment ID" -> Get(a, "assignment_id", Str(""))
            [] p = "Title" -> Get(a, "title", Str(""))
            [] p = "Class" -> Get(a, "class_code", Str(""))
            [] p = "Type" -> Get(a, "type", Str(""))
            [] p = "Status" -> Get(a, "status", Str(""))
            [] p = "Priority" -> Get(a, "priority", Str(""))
            [] p = "Assigned Date" -> Get(a, "assigned_date", Str(""))
            [] p = "Due Date" -> Get(a, "due_date", Str(""))
            [] p = "Points" -> Get(a, "points_possible", Num(0))
            [] p = "Estimated Hours" -> Get(a, "estimated_hours", Num(0))
            [] p = "URL" -> Get(a, "url", Str(""))
            [] p = "Tags" -> << >> ],
    content |->
      << [type |-> "heading_2", text |-> Str("Description"), checked |-> FALSE],
         [type |-> "paragraph", text |-> Get(a, "description", Str("")), checked |-> FALSE],
         [type |-> "heading_2", text |-> Str("Checklist"), checked |-> FALSE],
         [type |-> "to_do", text |-> Str("Complete assignment"), checked |-> FALSE] >> ]
NotionPage(a) ==
  [ page_id |-> "page_" \o Format(Get(a, "assignment_id", None)),
    properties |->
      [ p \in PropertyNames |->
          CASE p = "Assignment ID" -> Get(a, "assignment_id", Str(""))
            [] p = "Title" -> Get(a, "title", Str(""))
            [] p = "Class" -> Get(a, "class_code", Str(""))
            [] p = "Type" -> Get(a, "type", Str(""))
            [] p = "Status" -> Get(a, "status", Str(""))
            [] p = "Priority" -> Get(a, "priority", Str(""))
            [] p = "Assigned Date" -> Get(a, "assigned_date", Str(""))
            [] p = "Due Date" -> Get(a, "due_date", Str(""))
            [] p = "Points" -> Get(a, "points_possible", Num(0))
            [] p = "Estimated Hours" -> Get(a, "estimated_hours", Num(0))
            [] p = "URL" -> Get(a, "url", Str(""))
            [] p = "Tags" -> << >> ],
    content |->
      << [type |-> "heading_2", text |-> Str("Description"), checked |-> FALSE],
         [type |-> "paragraph", text |-> Get(a, "description", Str("")), checked |-> FALSE],
         [type |-> "heading_2", text |-> Str("Checklist"), checked |-> FALSE],
         [type |-> "to_do", text |-> Str("Complete assignment"), checked |-> FALSE] >> ]

\* the task literal of transform_to_todo_format
TodoTask(a) ==
  [ task_id |-> "task_" \o Format(Get(a, "assignment_id", None)),
    title |-> Format(Get(a, "class_code", None)) \o ": " \o Format(Get(a, "title", None)),
    description |-> Get(a, "description", Str("")),
    due_date |-> Get(a, "due_date", Str("")),
    priority |-> Get(a, "priority", Str("medium")),
    estimated_time |-> Format(Get(a, "estimated_hours", Num(0))) \o " hours",
    tags |-> << Get(a, "type", Str("")), Get(a, "class_code", Str("")) >>,
    url |-> Get(a, "url", Str("")),
    checklist |->
      << [item |-> "Start assignment", completed |-> FALSE],
         [item |-> "Complete assignment", completed |-> FALSE],
         [item |-> "Submit assignment", completed |-> FALSE] >> ]

(***************************************************************************)
(* The body of the loop of transform_to_todo_format: the three lists after *)
(* the assignment a, whose days-until-due value is days, has been filed.   *)
(***************************************************************************)
IsImportant(a) == Get(a, "priority", None) \in {Str("critical"), Str("high")}

TodoBody_IfIf(u, m, r, a, days) ==
  LET task == TodoTask(a)
      u2 == IF days # None /\ days.n <= UrgentDays THEN Append(u, task) ELSE u
  IN IF IsImportant(a)
       THEN [u |-> u2, m |-> Append(m, task), r |-> r]
       ELSE [u |-> u2, m |-> m, r |-> Append(r, task)]
TodoBody_Below(u, m, r, a, days) ==
  LET task == TodoTask(a)
  IN IF days # None /\ days.n < UrgentDays
       THEN [u |-> Append(u, task), m |-> m, r |-> r]
     ELSE IF IsImportant(a)
       THEN [u |-> u, m |-> Append(m, task), r |-> r]
     ELSE [u |-> u, m |-> m, r |-> Append(r, task)]
TodoBody_Prepend(u, m, r, a, days) ==
  LET task == TodoTask(a)
  IN IF days # None /\ days.n <= UrgentDays
       THEN [u |-> << task >> \o u, m |-> m, r |-> r]
     ELSE IF IsImportant(a)
       THEN [u |-> u, m |-> << task >> \o m, r |-> r]
     ELSE [u |-> u, m |-> m, r |-> << task >> \o r]
TodoBody(u, m, r, a, days) ==
  LET task == TodoTask(a)
  IN IF days # None /\ days.n <= UrgentDays
       THEN [u |-> Append(u, task), m |-> m, r |-> r]
     ELSE IF IsImportant(a)
       THEN [u |-> u, m |-> Append(m, task), r |-> r]
     ELSE [u |-> u, m |-> m, r |-> Append(r, task)]

(***************************************************************************)
(* Filling the loaded template.                                            *)
(***************************************************************************)
FillSheets_AllTabs(template, rws) ==
  [template EXCEPT !.sheet_tabs =
     [k \in DOMAIN template.sheet_tabs |-> [template.sheet_tabs[k] EXCEPT !.rows = rws]]]
FillSheets(template, rws) ==
  [template EXCEPT !.sheet_tabs[1].rows = rws]

FillNotion(template, pgs) ==
  [template EXCEPT !.pages = pgs]

FillTodo(template, u, m, r) ==
  [template EXCEPT !.categories[1].tasks = u,
                   !.categories[2].tasks = m,
                   !.categories[3].tasks = r]

(***************************************************************************)
(* The inputs of a run: the assignments of template_data/assignments.json, *)
(* the three output templates, the zone of the machine.                    *)
(***************************************************************************)
Keys ==
  { "assignment_id", "class_code", "class_name", "title", "type", "status",
    "assigned_date", "due_date", "priority", "points_possible",
    "estimated_hours", "url", "description" }

\* marks a key the assignment does not have; never a value of an assignment
Missing == [t |-> "missing", s |-> "", n |-> 0]

DueChoices ==
  { Missing, Str(""), Str(NotADate), Str(DueZ), Str(DueOffset), Str(DueNaive) }
PriorityChoices ==
  { Missing, Str("critical"), Str("high"), Str("medium"), Str("low") }

Sample(id, due, priority) ==
  [ k \in Keys |->
      CASE k = "assignment_id" -> id
        [] k = "class_code" -> Str("CS101")
        [] k = "class_name" -> Str("Intro to Computer Science")
        [] k = "title" -> Str("Problem Set")
        [] k = "type" -> Str("homework")
        [] k = "status" -> Str("not_started")
        [] k = "assigned_date" -> Str("2026-11-01T09:00:00Z")
        [] k = "due_date" -> due
        [] k = "priority" -> priority
        [] k = "points_possible" -> Num(100)
        [] k = "estimated_hours" -> Num(3)
        [] k = "url" -> Str("https://canvas.example.edu/courses/1")
        [] k = "description" -> Str("Solve the problems") ]

\* the record restricted to the keys it has a value for, among ks
Assignment(ks, id, due, priority) ==
  LET full == Sample(id, due, priority)
      has == { k \in ks : full[k] # Missing }
  IN [ k \in has |-> full[k] ]

\* what one entry of the document may look like: every field, with each due
\* date or each priority; a due date within reach together with a priority
\* that matters; the identifier alone; a due date that is a number;
\* everything but the identifier
Shapes ==
  { << Keys, d, Str("medium") >> : d \in DueChoices }
  \cup { << Keys, Missing, p >> : p \in PriorityChoices }
  \cup { << Keys, Str(DueZ), Str("critical") >>,
         << Keys, Str(DueOffset), Str("high") >>,
         << Keys, Str(NotADate), Str("high") >>,
         << {"assignment_id"}, Missing, Missing >>,
         << {"assignment_id", "due_date"}, Num(20261108), Missing >>,
         << Keys \ {"assignment_id"}, Str(DueNaive), Str("high") >> }

IdAt(j) == Str("A" \o ToString(j))

AssignmentDocuments ==
  UNION { [1..n -> Shapes] : n \in 0..MaxAssignments }

Build(doc) ==
  [ j \in DOMAIN doc |-> Assignment(doc[j][1], IdAt(j), doc[j][2], doc[j][3]) ]

TemplateRow == << Str("example") >>
TemplateTask == [task_id |-> "task_example"]

SheetsTemplates ==
  << [ spreadsheet_name |-> "Assignment Tracker",
      sheet_tabs |-> << [tab_name |-> "Assignments", rows |-> << TemplateRow >>] >> ],
    [ spreadsheet_name |-> "Assignment Tracker",
      sheet_tabs |-> << [tab_name |-> "Assignments", rows |-> << TemplateRow >>],
                        [tab_name |-> "Summary", rows |-> << TemplateRow >>] >> ] >>
NotionTemplates ==
  << [ database_name |-> "Assignments", pages |-> << >> ],
    [ database_name |-> "Assignments", pages |-> << [page_id |-> "page_example"] >> ] >>
TodoTemplates ==
  << [ list_name |-> "Assignments",
      categories |-> << [category_name |-> "Urgent & Important", tasks |-> << >>],
                        [category_name |-> "Important, Not Urgent", tasks |-> << >>],
                        [category_name |-> "Regular", tasks |-> << >>] >> ],
    [ list_name |-> "Assignments",
      categories |-> << [category_name |-> "Urgent & Important", tasks |-> << TemplateTask >>],
                        [category_name |-> "Important, Not Urgent", tasks |-> << >>],
                        [category_name |-> "Regular", tasks |-> << >>],
                        [category_name |-> "Completed", tasks |-> << TemplateTask >>] >> ] >>

\* the three files of template_data/ as found on disk
TemplateFiles ==
  { [ sheets |-> SheetsTemplates[k], notion |-> NotionTemplates[k],
      todo |-> TodoTemplates[k] ] : k \in DOMAIN SheetsTemplates }

LocalOffsets == { -5 }

(***************************************************************************)
(* State.                                                                  *)
(***************************************************************************)
VARIABLES
  assignments,           \* self.assignments
  files,                 \* the output templates on disk
  local,                 \* UTC offset of the machine's zone, in hours
  now,                   \* the clock, in hours (UTC)
  ticks,                 \* how often the clock has advanced
  pc,                    \* where main() / export_all_formats() stands
  i,                     \* index of the next assignment of the running loop
  rows,                  \* transform_to_sheets_format: rows
  pages,                 \* transform_to_notion_format: pages
  urgent_important,      \* transform_to_todo_format: the three lists
  important_not_urgent,
  regular,
  sheets_data,           \* export_all_formats: the documents returned
  notion_data,
  todo_data

vars ==
  << assignments, files, local, now, ticks, pc, i, rows, pages,
     urgent_important, important_not_urgent, regular,
     sheets_data, notion_data, todo_data >>

NotYet == "not exported"

Init ==
  /\ assignments = << >>
  /\ files \in TemplateFiles
  /\ local \in LocalOffsets
  /\ now = 0
  /\ ticks = 0
  /\ pc = "main"
  /\ i = 1
  /\ rows = << >>
  /\ pages = << >>
  /\ urgent_important = << >>
  /\ important_not_urgent = << >>
  /\ regular = << >>
  /\ sheets_data = NotYet
  /\ notion_data = NotYet
  /\ todo_data = NotYet

\* main(): scraper.assignments = template_data['assignments']
LoadAssignments ==
  /\ pc = "main"
  /\ \E doc \in AssignmentDocuments : assignments' = Build(doc)
  /\ pc' = "export"
  /\ UNCHANGED << files, local, now, ticks, i, rows, pages, urgent_important,
                  important_not_urgent, regular, sheets_data, notion_data, todo_data >>

\* time passes between two readings of the clock
Tick ==
  /\ pc \in {"sheets", "todo"}
  /\ ticks < MaxTicks
  /\ ticks' = ticks + 1
  /\ now' = now + HoursPerDay \div 2
  /\ UNCHANGED << assignments, files, local, pc, i, rows, pages, urgent_important,
                  important_not_urgent, regular, sheets_data, notion_data, todo_data >>

\* transform_to_sheets_format: template loaded, rows = []
SheetsBegin ==
  /\ pc = "export"
  /\ pc' = "sheets"
  /\ i' = 1
  /\ rows' = << >>
  /\ UNCHANGED << assignments, files, local, now, ticks, pages, urgent_important,
                  important_not_urgent, regular, sheets_data, notion_data, todo_data >>

\* one turn of "for assignment in assignments"
SheetsLoop ==
  /\ pc = "sheets"
  /\ i <= Len(assignments)
  /\ LET assignment == assignments[i]
         days == CalculateDaysUntilDue(Get(assignment, "due_date", None), now, local)
     IN IF days = Raised
          THEN pc' = "error" /\ UNCHANGED << i, rows >>
          ELSE /\ rows' = Append(rows, SheetsRow(assignment, days))
               /\ i' = i + 1
               /\ pc' = pc
  /\ UNCHANGED << assignments, files, local, now, ticks, pages, urgent_important,
                  important_not_urgent, regular, sheets_data, notion_data, todo_data >>

\* template['sheet_tabs'][0]['rows'] = rows; return template
SheetsReturn ==
  /\ pc = "sheets"
  /\ i > Len(assignments)
  /\ sheets_data' = FillSheets(files.sheets, rows)
  /\ pc' = "notion_begin"
  /\ UNCHANGED << assignments, files, local, now, ticks, i, rows, pages, urgent_important,
                  important_not_urgent, regular, notion_data, todo_data >>

NotionBegin ==
  /\ pc = "notion_begin"
  /\ pc' = "notion"
  /\ i' = 1
  /\ pages' = << >>
  /\ UNCHANGED << assignments, files, local, now, ticks, rows, urgent_important,
                  important_not_urgent, regular, sheets_data, notion_data, todo_data >>

NotionLoop ==
  /\ pc = "notion"
  /\ i <= Len(assignments)
  /\ pages' = Append(pages, NotionPage(assignments[i]))
  /\ i' = i + 1
  /\ UNCHANGED << assignments, files, local, now, ticks, pc, rows, urgent_important,
                  important_not_urgent, regular, sheets_data, notion_data, todo_data >>

\* template['pages'] = pages; return template
NotionReturn ==
  /\ pc = "notion"
  /\ i > Len(assignments)
  /\ notion_data' = FillNotion(files.notion, pages)
  /\ pc' = "todo_begin"
  /\ UNCHANGED << assignments, files, local, now, ticks, i, rows, pages, urgent_important,
                  important_not_urgent, regular, sheets_data, todo_data >>

TodoBegin ==
  /\ pc = "todo_begin"
  /\ pc' = "todo"
  /\ i' = 1
  /\ urgent_important' = << >>
  /\ important_not_urgent' = << >>
  /\ regular' = << >>
  /\ UNCHANGED << assignments, files, local, now, ticks, rows, pages,
                  sheets_data, notion_data, todo_data >>

TodoLoop ==
  /\ pc = "todo"
  /\ i <= Len(assignments)
  /\ LET assignment == assignments[i]
         days_until_due == CalculateDaysUntilDue(Get(assignment, "due_date", None), now, local)
         lists == TodoBody(urgent_important, important_not_urgent, regular,
                           assignment, days_until_due)
     IN IF days_until_due = Raised
          THEN /\ pc' = "error"
               /\ UNCHANGED << i, urgent_important, important_not_urgent, regular >>
          ELSE /\ urgent_important' = lists.u
               /\ important_not_urgent' = lists.m
               /\ regular' = lists.r
               /\ i' = i + 1
               /\ pc' = pc
  /\ UNCHANGED << assignments, files, local, now, ticks, rows, pages,
                  sheets_data, notion_data, todo_data >>

\* template['categories'][0..2]['tasks'] = ...; return template
TodoReturn ==
  /\ pc = "todo"
  /\ i > Len(assignments)
  /\ todo_data' = FillTodo(files.todo, urgent_important, important_not_urgent, regular)
  /\ pc' = "done"
  /\ UNCHANGED << assignments, files, local, now, ticks, i, rows, pages, urgent_important,
                  important_not_urgent, regular, sheets_data, notion_data >>

Next ==
  \/ LoadAssignments
  \/ Tick
  \/ SheetsBegin
  \/ SheetsLoop
  \/ SheetsReturn
  \/ NotionBegin
  \/ NotionLoop
  \/ NotionReturn
  \/ TodoBegin
  \/ TodoLoop
  \/ TodoReturn

Spec == Init /\ [][Next]_vars

(***************************************************************************)
(* Vocabulary of the properties.                                           *)
(***************************************************************************)
SheetsReturned == pc \in {"notion_begin", "notion", "todo_begin", "todo", "done"}
NotionReturned == pc \in {"todo_begin", "todo", "done"}
TodoReturned == pc = "done"

\* the rows, pages and lists as far as they have been produced, and how many
\* assignments went into them
SheetsOut == IF pc = "sheets" THEN rows ELSE sheets_data.sheet_tabs[1].rows
NotionOut == IF pc = "notion" THEN pages ELSE notion_data.pages
UrgentOut == IF pc = "todo" THEN urgent_important ELSE todo_data.categories[1].tasks
ImportantOut == IF pc = "todo" THEN important_not_urgent ELSE todo_data.categories[2].tasks
RegularOut == IF pc = "todo" THEN regular ELSE todo_data.categories[3].tasks
BucketOut(b) == IF b = 1 THEN UrgentOut ELSE IF b = 2 THEN ImportantOut ELSE RegularOut
Buckets == 1..3

SheetsFiled == IF pc = "sheets" THEN i - 1 ELSE Len(assignments)
NotionFiled == IF pc = "notion" THEN i - 1 ELSE Len(assignments)
TodoFiled == IF pc = "todo" THEN i - 1 ELSE Len(assignments)

Has(a, k) == k \in DOMAIN a

\* the due dates of the model that are ISO-8601 dates, and the hours from the
\* clock reading t to each, by the calendar
IsoDates == { DueZ, DueOffset, DueNaive }
HoursUntil(s, t, loc) ==
  CASE s = DueZ -> 6 - t
    [] s = DueOffset -> 102 - t
    [] s = DueNaive -> 91 - (t + loc)

HasIsoDue(a) ==
  /\ Has(a, "due_date")
  /\ a["due_date"].t = "str"
  /\ a["due_date"].s \in IsoDates

SheetsStep == pc = "sheets" /\ pc' = "sheets" /\ i' = i + 1
TodoStep == pc = "todo" /\ pc' = "todo" /\ i' = i + 1

(***************************************************************************)
(* C1: transform_to_todo_format files every assignment in exactly one of   *)
(* the three buckets: the buckets together hold as many tasks as there are *)
(* assignments filed, and the assignments can be dealt to the buckets, one *)
(* bucket each, so that every bucket holds exactly the tasks of its own.   *)
(***************************************************************************)
HoldsTasksOf(bucket, J) ==
  /\ Len(bucket) = Cardinality(J)
  /\ \E g \in [1..Len(bucket) -> J] :
       /\ \A x, y \in 1..Len(bucket) : g[x] = g[y] => x = y
       /\ \A x \in 1..Len(bucket) : bucket[x] = TodoTask(assignments[g[x]])

C1_BucketsPartition ==
  (pc = "todo" \/ TodoReturned) =>
    /\ Len(UrgentOut) + Len(ImportantOut) + Len(RegularOut) = TodoFiled
    /\ \E f \in [1..TodoFiled -> Buckets] :
         \A b \in Buckets : HoldsTasksOf(BucketOut(b), { j \in 1..TodoFiled : f[j] = b })

C1_Witness ==
  /\ TodoReturned
  /\ Len(assignments) = 2
  /\ Len(UrgentOut) = 1
  /\ Len(RegularOut) = 1

(***************************************************************************)
(* C2: each turn of the todo loop files the task by the first rule that    *)
(* matches: urgent if the days-until-due value is a number <= 3, whatever  *)
(* the priority; else important if the priority is critical or high; else  *)
(* regular.  An assignment whose due date is absent or no ISO date is      *)
(* never filed as urgent.                                                  *)
(***************************************************************************)
C2_FirstRuleWins ==
  [][ TodoStep =>
        LET a == assignments[i]
            d == CalculateDaysUntilDue(Get(a, "due_date", None), now, local)
            task == TodoTask(a)
            soon == d.t = "int" /\ d.n <= 3
            weighty == Has(a, "priority") /\ a["priority"].s \in {"critical", "high"}
        IN /\ soon =>
                /\ urgent_important' = Append(urgent_important, task)
                /\ UNCHANGED << important_not_urgent, regular >>
           /\ (~soon /\ weighty) =>
                /\ important_not_urgent' = Append(important_not_urgent, task)
                /\ UNCHANGED << urgent_important, regular >>
           /\ (~soon /\ ~weighty) =>
                /\ regular' = Append(regular, task)
                /\ UNCHANGED << urgent_important, important_not_urgent >>
           /\ ~HasIsoDue(a) => UNCHANGED urgent_important ]_vars

C2_Witness ==
  /\ TodoReturned
  /\ \E x \in 1..Len(UrgentOut) : UrgentOut[x].priority = Str("critical")
  /\ \E x \in 1..Len(ImportantOut) : ImportantOut[x].due_date = Str(NotADate)

(***************************************************************************)
(* C3: transform_to_sheets_format makes one row per assignment, the j-th   *)
(* row from the j-th assignment, each of 13 columns in the order of        *)
(* Columns (the ninth being the days-until-due value).                     *)
(***************************************************************************)
RowOf(a, row) ==
  /\ Len(row) = 13
  /\ \A c \in 1..13 :
       IF Columns[c] = "days_until_due"
         THEN row[c] = None \/ row[c].t = "int"
         ELSE row[c] = Get(a, Columns[c], Str(""))

C3_OneRowPerAssignment ==
  (pc = "sheets" \/ SheetsReturned) =>
    /\ Len(SheetsOut) = SheetsFiled
    /\ \A j \in 1..SheetsFiled : RowOf(assignments[j], SheetsOut[j])

C3_Witness ==
  /\ SheetsReturned
  /\ Len(assignments) = 2
  /\ ~Has(assignments[1], "class_code")
  /\ SheetsOut[2][2] = Str("CS101")
  /\ SheetsOut[1][1] = Str("A1")

(***************************************************************************)
(* C4: transform_to_notion_format makes one page per assignment, the j-th  *)
(* page from the j-th assignment, and the page_id of the page of an        *)
(* assignment that has an identifier is "page_" followed by it.            *)
(***************************************************************************)
PageOf(a, page) ==
  /\ Has(a, "assignment_id") => page.page_id = "page_" \o a["assignment_id"].s
  /\ page.properties["Assignment ID"] = Get(a, "assignment_id", Str(""))
  /\ page.properties["Title"] = Get(a, "title", Str(""))
  /\ page.properties["Due Date"] = Get(a, "due_date", Str(""))
  /\ page.properties["Priority"] = Get(a, "priority", Str(""))

C4_OnePagePerAssignment ==
  (pc = "notion" \/ NotionReturned) =>
    /\ Len(NotionOut) = NotionFiled
    /\ \A j \in 1..NotionFiled : PageOf(assignments[j], NotionOut[j])

C4_Witness ==
  /\ NotionReturned
  /\ Len(assignments) = 2
  /\ NotionOut[1].page_id = "page_A1"
  /\ NotionOut[2].page_id = "page_A2"

(***************************************************************************)
(* C5: a due date that is absent, empty, not a string or no ISO date makes *)
(* _calculate_days_until_due return None: the days column of the row is    *)
(* None, and no transformation ends in an error.                           *)
(***************************************************************************)
C5_BadDateIsNone ==
  /\ pc # "error"
  /\ (pc = "sheets" \/ SheetsReturned) =>
       \A j \in 1..SheetsFiled :
         ~HasIsoDue(assignments[j]) => SheetsOut[j][9] = None

C5_Witness ==
  /\ TodoReturned
  /\ Len(assignments) = 2
  /\ Get(assignments[1], "due_date", None) = Str(NotADate)
  /\ Get(assignments[2], "due_date", None).t = "int"
  /\ SheetsOut[1][9] = None

(***************************************************************************)
(* C6: in every row a column whose field the assignment lacks is the empty *)
(* string, the days-until-due column included when the due date is absent  *)
(* or no ISO date.                                                         *)
(***************************************************************************)
C6_MissingRendersEmpty ==
  (pc = "sheets" \/ SheetsReturned) =>
    \A j \in 1..SheetsFiled :
      \A c \in 1..Len(SheetsOut[j]) :
        IF Columns[c] = "days_until_due"
          THEN ~HasIsoDue(assignments[j]) => SheetsOut[j][c] = Str("")
          ELSE ~Has(assignments[j], Columns[c]) => SheetsOut[j][c] = Str("")

(***************************************************************************)
(* C7: in the pages and the tasks a field the assignment lacks shows as    *)
(* the empty string or zero: in the page properties, in the task title     *)
(* (class_code + ": " + title), in the task priority and the task tags.    *)
(***************************************************************************)
TextOr(a, k) == IF Has(a, k) THEN a[k].s ELSE ""

TaskDefaults(a, task) ==
  /\ task.title = TextOr(a, "class_code") \o ": " \o TextOr(a, "title")
  /\ ~Has(a, "priority") => task.priority = Str("")
  /\ ~Has(a, "type") => task.tags[1] = Str("")
  /\ ~Has(a, "class_code") => task.tags[2] = Str("")

PageDefaults(a, page) ==
  /\ ~Has(a, "title") => page.properties["Title"] = Str("")
  /\ ~Has(a, "class_code") => page.properties["Class"] = Str("")
  /\ ~Has(a, "priority") => page.properties["Priority"] = Str("")
  /\ ~Has(a, "points_possible") => page.properties["Points"] = Num(0)
  /\ ~Has(a, "estimated_hours") => page.properties["Estimated Hours"] = Num(0)

C7_AbsentFieldsDefault ==
  /\ (pc = "notion" \/ NotionReturned) =>
       \A j \in 1..NotionFiled : PageDefaults(assignments[j], NotionOut[j])
  /\ (pc = "todo" \/ TodoReturned) =>
       \A j \in 1..TodoFiled :
         Has(assignments[j], "assignment_id") =>
           \A b \in Buckets :
             \A x \in 1..Len(BucketOut(b)) :
               BucketOut(b)[x].task_id = "task_" \o assignments[j]["assignment_id"].s
                 => TaskDefaults(assignments[j], BucketOut(b)[x])

(***************************************************************************)
(* C8: within each bucket the tasks stand in the order of their            *)
(* assignments in the input: the assignments can be dealt to the buckets   *)
(* so that every bucket is the sequence of the tasks of its own, earlier   *)
(* assignments first.                                                      *)
(***************************************************************************)
RECURSIVE InInputOrder(_, _, _)
InInputOrder(f, b, n) ==
  IF n = 0 THEN << >>
  ELSE IF f[n] = b
    THEN Append(InInputOrder(f, b, n - 1), TodoTask(assignments[n]))
    ELSE InInputOrder(f, b, n - 1)

C8_BucketsKeepInputOrder ==
  (pc = "todo" \/ TodoReturned) =>
    \E f \in [1..TodoFiled -> Buckets] :
      \A b \in Buckets : BucketOut(b) = InInputOrder(f, b, TodoFiled)

C8_Witness ==
  /\ TodoReturned
  /\ Len(ImportantOut) = 2
  /\ ImportantOut[1].task_id = "task_A1"
  /\ ImportantOut[2].task_id = "task_A2"

(***************************************************************************)
(* C9: a transformation returns the template with only its own slot        *)
(* replaced (the rows of the first tab; the pages; the tasks of the first  *)
(* three categories); with no assignments the slot is the empty list.      *)
(***************************************************************************)
SheetsFrame ==
  LET t == files.sheets
      o == sheets_data
  IN /\ DOMAIN o = DOMAIN t
     /\ o.spreadsheet_name = t.spreadsheet_name
     /\ Len(o.sheet_tabs) = Len(t.sheet_tabs)
     /\ DOMAIN o.sheet_tabs[1] = DOMAIN t.sheet_tabs[1]
     /\ o.sheet_tabs[1].tab_name = t.sheet_tabs[1].tab_name
     /\ \A k \in 2..Len(t.sheet_tabs) : o.sheet_tabs[k] = t.sheet_tabs[k]
     /\ assignments = << >> => o.sheet_tabs[1].rows = << >>

NotionFrame ==
  LET t == files.notion
      o == notion_data
  IN /\ DOMAIN o = DOMAIN t
     /\ o.database_name = t.database_name
     /\ assignments = << >> => o.pages = << >>

TodoFrame ==
  LET t == files.todo
      o == todo_data
  IN /\ DOMAIN o = DOMAIN t
     /\ o.list_name = t.list_name
     /\ Len(o.categories) = Len(t.categories)
     /\ \A k \in 1..Len(t.categories) :
          IF k <= 3
            THEN /\ DOMAIN o.categories[k] = DOMAIN t.categories[k]
                 /\ o.categories[k].category_name = t.categories[k].category_name
                 /\ assignments = << >> => o.categories[k].tasks = << >>
            ELSE o.categories[k] = t.categories[k]

C9_OnlySlotChanges ==
  /\ SheetsReturned => SheetsFrame
  /\ NotionReturned => NotionFrame
  /\ TodoReturned => TodoFrame

C9_Witness ==
  /\ TodoReturned
  /\ assignments = << >>
  /\ Len(files.sheets.sheet_tabs) = 2
  /\ files.sheets.sheet_tabs[1].rows # << >>
  /\ Len(files.todo.categories) = 4
  /\ sheets_data.sheet_tabs[1].rows = << >>

(***************************************************************************)
(* C10: for an ISO due date the days-until-due value is the floor of the   *)
(* hours from now to the due date over 24 (-1 for a date up to a day       *)
(* past), and the task is filed as urgent exactly when fewer than 4 full   *)
(* days remain.                                                            *)
(***************************************************************************)
C10_DaysIsFloor ==
  [][ /\ (SheetsStep /\ HasIsoDue(assignments[i])) =>
           LET r == rows'[i][9]
               h == HoursUntil(assignments[i]["due_date"].s, now, local)
           IN /\ r.t = "int"
              /\ 24 * r.n <= h
              /\ h < 24 * (r.n + 1)
      /\ (TodoStep /\ HasIsoDue(assignments[i])) =>
           LET h == HoursUntil(assignments[i]["due_date"].s, now, local)
           IN (urgent_important' # urgent_important) <=> (h < 4 * 24) ]_vars

C10_Witness ==
  /\ TodoReturned
  /\ \E j \in 1..Len(SheetsOut) : SheetsOut[j][9] = Num(-1)
  /\ \E j \in 1..Len(SheetsOut) :
       /\ SheetsOut[j][8] = Str(DueNaive)
       /\ SheetsOut[j][9] = Num(4)

====
